---- MODULE Spec2Model ----
(***************************************************************************)
(* Task workflow engine of the flashcard backend: the task-bound HTTP      *)
(* handlers of business/views.py, the business functions they call        *)
(* (business/flashcard.py, business/catalog.py), the task manager          *)
(* (business/task_manager.py) and the rows of the relational store they    *)
(* read and write (task_info, catalog_info, flashcard_result, flashcard).  *)
(*                                                                         *)
(* A request is handled in steps.  The handler's view part reads the task  *)
(* once (validate_task) and decides what to do; every later call that      *)
(* touches the store or a collaborator (a status write, an upload, an AI   *)
(* call, an insert) is one step, taken in program order.  The outcomes of  *)
(* the collaborators (does the upload raise, what does the AI return, does *)
(* an insert fail) are inputs of the request.                              *)
(***************************************************************************)
EXTENDS Naturals, Sequences, FiniteSets, TLC

VARIABLES
    tasks,       \* task_info rows: task id -> row
    catalogs,    \* catalog_info rows: task id -> row (exists, selected)
    results,     \* flashcard_result rows, in insertion order
    flashcards,  \* flashcard rows, in insertion order
    req,         \* worker -> the request it is handling / has last handled
    calc         \* the outline the Catalog Engine works on, and its results

vars == <<tasks, catalogs, results, flashcards, req, calc>>

----------------------------------------------------------------------------
(* Bounds of the model *)

\* longest card list the AI collaborator returns in one completion
MaxCards == 2
\* most chapters of an outline
MaxChapters == 2
\* most tokens of a completion text given to the result parser
MaxTokens == 4

----------------------------------------------------------------------------
(* Values *)

None == "None"

TaskIds == {"t1", "t2"}
\* a task id no row of task_info carries
MissingTaskId == "t9"

TaskTypes == {"text", "file", "web"}
WorkflowTypes == {"extract_catalog", "direct_generate"}

Statuses ==
    {"created", "file_uploading", "ai_processing", "generating_catalog",
     "generating_cards", "catalog_ready", "completed", "failed"}

\* the workers of the sequential deployment: one request at a time
SeqWorkers == {"w1"}
Workers == {"w1", "w2"}

\* file names, texts (by length) and urls a request can carry
FileNames == {"a.pdf", "b.pdf"}
Texts == {"", "x", "xx"}
Urls == {"", "http://a", "http://b", "ftp://a"}

\* the value of the chapter_ids form field after json.loads:
\* "invalid" (JSONDecodeError), "notlist" (decodes to a non-list) or a list
ChapterIdLists == {<<>>, <<"1">>, <<"1", "2">>, <<"9">>}
ChapterIdInputs == {"invalid", "notlist", "list"}

\* addresses of the nodes of the outline stored in a Catalog row
CatalogAddresses == {"1", "1.1", "2"}

\* the requested addresses the outline holds, in request order: the sections
\* a multi-section run is asked to generate cards for
ResolvedSections(chapter_ids) ==
    SelectSeq(chapter_ids, LAMBDA a : a \in CatalogAddresses)

CardList(n) == [i \in 1..n |-> i]

\* what one AI completion gives: the call raises, or returns free text that
\* does not decode, or JSON that decodes to an object, or to a card list
AiOutputs ==
    {[kind |-> k, cards |-> <<>>] : k \in {"raise", "text", "object"}}
    \cup {[kind |-> "list", cards |-> CardList(n)] : n \in 0..MaxCards}

----------------------------------------------------------------------------
(* Effects: the calls a handler makes, in program order *)

Eff(op, st, ok, n, cards) ==
    [op |-> op, st |-> st, ok |-> ok, n |-> n, cards |-> cards]

\* task_mgr.update_status(task_id, st)
W(st) == Eff("update_status", st, TRUE, 0, <<>>)
\* ai_service.upload_files([file_path])
Upload == Eff("upload_files", None, TRUE, 0, <<>>)
\* the read-modify-write of input_data.file.info (ok: the read finds the task)
SaveInfo(ok) == Eff("save_multimedia", None, ok, 0, <<>>)
\* ai_service.chat / chat_with_multimedia / the crawler
Chat(st) == Eff("external", st, TRUE, 0, <<>>)
\* the reference upload_files returns for the task's file
UploadedMedia == "m1"
\* ai_service.chat_with_multimedia(prompt, multimedia), with the reference
\* it is given
ChatWith(multimedia) ==
    Eff("external", "chat_with_multimedia", TRUE, 0, <<multimedia>>)
\* catalog_db.update_selected_sections(task_id, chapter_ids)
Selected(ids) == Eff("update_selected", None, TRUE, 0, ids)
\* result_db.create_result(total_count = n); ok: the insert succeeds
CreateResult(n, src, ok) == Eff("create_result", src, ok, n, <<>>)
\* flashcard_db.batch_create_flashcards(cards); ok: the insert succeeds
CreateCards(cards, ok) == Eff("create_flashcards", None, ok, 0, cards)
\* the view calls the business function st
Call(st) == Eff("call", st, TRUE, 0, <<>>)
\* the JsonResponse: http code n, success ok, error st, cards
Return(n, ok, st, cards) == Eff("return", st, ok, n, cards)

----------------------------------------------------------------------------
(* business/task_manager.py *)

\* len(text) of the request texts
TextLen(s) == CASE s = "" -> 0 [] s = "xx" -> 2 [] OTHER -> 1

NoRow ==
    [task_type |-> None, workflow_type |-> None, status |-> None,
     user_id |-> None, text |-> None, file_name |-> None, info |-> None,
     web_url |-> None]

\* TaskManager.get_task: the row, or None when the select fails (ok = FALSE)
\* or returns no row
get_task(tks, task_id, ok) ==
    IF ok /\ task_id \in DOMAIN tks
    THEN [found |-> TRUE, row |-> tks[task_id]]
    ELSE [found |-> FALSE, row |-> NoRow]

validate_task_skips_status(tks, task_id, expected_task_type, expected_workflow_type, ok) ==
    LET g == get_task(tks, task_id, ok) IN
    IF ~g.found
    THEN [valid |-> FALSE, error |-> "task_missing", task |-> g.row]
    ELSE IF expected_task_type # None /\ g.row.task_type # expected_task_type
    THEN [valid |-> FALSE, error |-> "task_type_mismatch", task |-> g.row]
    ELSE IF expected_workflow_type # None
            /\ g.row.workflow_type # expected_workflow_type
    THEN [valid |-> FALSE, error |-> "workflow_type_mismatch", task |-> g.row]
    ELSE [valid |-> TRUE, error |-> None, task |-> g.row]

validate_task_skips_type(tks, task_id, expected_task_type, expected_workflow_type, ok) ==
    LET g == get_task(tks, task_id, ok) IN
    IF ~g.found
    THEN [valid |-> FALSE, error |-> "task_missing", task |-> g.row]
    ELSE IF g.row.status \in {"completed", "failed"}
    THEN [valid |-> FALSE, error |-> "task_ended", task |-> g.row]
    ELSE [valid |-> TRUE, error |-> None, task |-> g.row]

\* TaskManager.validate_task: the four checks, in the order of the code
validate_task(tks, task_id, expected_task_type, expected_workflow_type, ok) ==
    LET g == get_task(tks, task_id, ok) IN
    IF ~g.found
    THEN [valid |-> FALSE, error |-> "task_missing", task |-> g.row]
    ELSE IF expected_task_type # None /\ g.row.task_type # expected_task_type
    THEN [valid |-> FALSE, error |-> "task_type_mismatch", task |-> g.row]
    ELSE IF expected_workflow_type # None
            /\ g.row.workflow_type # expected_workflow_type
    THEN [valid |-> FALSE, error |-> "workflow_type_mismatch", task |-> g.row]
    ELSE IF g.row.status \in {"completed", "failed"}
    THEN [valid |-> FALSE, error |-> "task_ended", task |-> g.row]
    ELSE [valid |-> TRUE, error |-> None, task |-> g.row]

update_status_keeps_terminal(tks, task_id, status) ==
    [t \in DOMAIN tks |->
        IF t = task_id /\ tks[t].status \notin {"completed", "failed"}
        THEN [tks[t] EXCEPT !.status = status]
        ELSE tks[t]]

\* TaskManager.update_status: one unconditional update of the status column
\* of the rows whose id is task_id (none, when no row carries the id)
update_status(tks, task_id, status) ==
    [t \in DOMAIN tks |->
        IF t = task_id THEN [tks[t] EXCEPT !.status = status] ELSE tks[t]]

----------------------------------------------------------------------------
(* The collaborators' outcomes during one business call *)

\* lookup_ok: the get_task of the business function finds the row;
\* upload_ok: upload_files returns (else it raises); ais: what the AI
\* collaborator answers to the successive completions asked of it;
\* crawl: the crawler's outcome; result_ok, cards_ok: the inserts succeed
DefaultEnv ==
    [lookup_ok |-> TRUE, upload_ok |-> TRUE, ais |-> <<>>, crawl |-> "ok",
     result_ok |-> TRUE, cards_ok |-> TRUE]

AiSeqs(n) == [1..n -> AiOutputs]

\* AIWorkflow.parse_result: the decoded structure, or the text as received
parse_result(ai_result) ==
    IF ai_result.kind \in {"list", "object"}
    THEN [decoded |-> TRUE, is_list |-> ai_result.kind = "list",
          cards |-> ai_result.cards]
    ELSE [decoded |-> FALSE, is_list |-> FALSE, cards |-> <<>>]

----------------------------------------------------------------------------
(* business/flashcard.py, business/catalog.py: each business function as   *)
(* the sequence of calls it makes, given what it reads and what the        *)
(* collaborators answer                                                    *)

\* FlashcardBusiness._save_flashcard_result followed, when it succeeded, by
\* FlashcardBusiness._save_flashcards
SaveRun(tks, task_id, cards, source_type, env) ==
    LET g == get_task(tks, task_id, env.lookup_ok) IN
    IF ~g.found \/ g.row.user_id = None
    THEN <<>>
    ELSE <<CreateResult(Len(cards), source_type, env.result_ok)>>
         \o (IF env.result_ok THEN <<CreateCards(cards, env.cards_ok)>>
             ELSE <<>>)

\* the common tail of the single-step generators: the completion is parsed,
\* a list is saved and ends at completed, anything else ends at failed
GenerateTail(tks, task_id, source_type, env) ==
    IF env.ais[1].kind = "raise"
    THEN <<W("failed"), Return(500, FALSE, "exception", <<>>)>>
    ELSE LET result == parse_result(env.ais[1]) IN
         IF result.is_list
         THEN SaveRun(tks, task_id, result.cards, source_type, env)
              \o <<W("completed"), Return(200, TRUE, None, result.cards)>>
         ELSE <<W("failed"), Return(500, FALSE, "ai_format", <<>>)>>

\* FlashcardBusiness.generate_flashcards_from_text
generate_flashcards_from_text(tks, task_id, text, env) ==
    IF task_id = ""
    THEN <<Return(500, FALSE, "task_id_required", <<>>)>>
    ELSE IF TextLen(text) = 0
    THEN <<W("failed"), Return(500, FALSE, "text_empty", <<>>)>>
    ELSE <<W("ai_processing"), W("generating_cards"), Chat("chat")>>
         \o GenerateTail(tks, task_id, "text", env)

\* FlashcardBusiness.generate_flashcards_from_file
\* path: "" (no path), "missing" (no such file) or "present"
generate_flashcards_from_file(tks, task_id, path, env) ==
    IF task_id = ""
    THEN <<Return(500, FALSE, "task_id_required", <<>>)>>
    ELSE IF path # "present"
    THEN <<W("failed"), Return(500, FALSE, "file_missing", <<>>)>>
    ELSE <<W("file_uploading"), Upload>>
         \o (IF ~env.upload_ok
             THEN <<W("failed"), Return(500, FALSE, "exception", <<>>)>>
             ELSE <<W("ai_processing"), W("generating_cards"),
                    Chat("chat_with_multimedia")>>
                  \o GenerateTail(tks, task_id, "file", env))

\* FlashcardBusiness.generate_flashcards_from_url: no task id is passed and
\* no row is read or written
generate_flashcards_from_url(url, env) ==
    IF url = ""
    THEN <<Return(500, FALSE, "url_empty", <<>>)>>
    ELSE IF url \notin {"http://a", "http://b"}
    THEN <<Return(500, FALSE, "url_format", <<>>)>>
    ELSE <<Chat("crawl")>>
         \o (IF env.crawl # "ok"
             THEN <<Return(500, FALSE, "crawl_failed", <<>>)>>
             ELSE <<Chat("chat")>>
                  \o (IF env.ais[1].kind = "raise"
                      THEN <<Return(500, FALSE, "exception", <<>>)>>
                      ELSE IF parse_result(env.ais[1]).is_list
                      THEN <<Return(200, TRUE, None, env.ais[1].cards)>>
                      ELSE <<Return(500, FALSE, "ai_format", <<>>)>>))

\* FlashcardBusiness.generate_flashcards_from_file_section: one section,
\* one completion; a cached media reference replaces the upload
generate_flashcards_from_file_section(tks, task_id, path, section_title, env) ==
    IF task_id = ""
    THEN <<Return(500, FALSE, "task_id_required", <<>>)>>
    ELSE IF section_title = ""
    THEN <<W("failed"), Return(500, FALSE, "section_title_empty", <<>>)>>
    ELSE LET g == get_task(tks, task_id, env.lookup_ok) IN
         IF ~g.found
         THEN <<Return(500, FALSE, "task_missing", <<>>)>>
         ELSE IF g.row.info = None /\ path # "present"
         THEN <<W("failed"), Return(500, FALSE, "file_missing", <<>>)>>
         ELSE IF g.row.info = None /\ ~env.upload_ok
         THEN <<W("file_uploading"), Upload, W("failed"),
                Return(500, FALSE, "exception", <<>>)>>
         ELSE LET multimedia ==
                      IF g.row.info # None THEN g.row.info ELSE UploadedMedia
              IN  (IF g.row.info = None THEN <<W("file_uploading"), Upload>>
                   ELSE <<>>)
                  \o <<W("ai_processing"), W("generating_cards"),
                       ChatWith(multimedia)>>
                  \o (IF env.ais[1].kind = "raise"
                      THEN <<W("failed"),
                             Return(500, FALSE, "exception", <<>>)>>
                      ELSE IF parse_result(env.ais[1]).is_list
                      THEN <<W("completed"),
                             Return(200, TRUE, None, env.ais[1].cards)>>
                      ELSE <<W("failed"),
                             Return(500, FALSE, "ai_format", <<>>)>>)

generate_flashcards_from_file_section_by_ids_always_uploads(tks, task_id, path, chapter_ids, env) ==
    IF task_id = ""
    THEN <<Return(500, FALSE, "task_id_required", <<>>)>>
    ELSE IF chapter_ids = <<>>
    THEN <<W("failed"), Return(500, FALSE, "chapter_ids_empty", <<>>)>>
    ELSE LET g == get_task(tks, task_id, env.lookup_ok) IN
         IF ~g.found
         THEN <<Return(500, FALSE, "task_missing", <<>>)>>
         ELSE IF path # "present"
         THEN <<W("failed"), Return(500, FALSE, "file_missing", <<>>)>>
         ELSE IF ~env.upload_ok
         THEN <<W("file_uploading"), Upload, W("failed"),
                Return(500, FALSE, "exception", <<>>)>>
         ELSE <<W("file_uploading"), Upload>>
              \o <<W("ai_processing"), W("generating_cards")>>
              \o <<W("failed"), Return(500, FALSE, "exception", <<>>)>>

\* FlashcardBusiness.generate_flashcards_from_file_section_by_ids.
\* After the status generating_cards is written the function calls
\* CatalogService.get_catalog_from_file, a method the class does not define
\* (it defines analyze_catalog_from_topic, _from_text and _from_file only):
\* the call raises AttributeError inside the try block, the except clause
\* writes failed and returns the failure.  The section loop behind the call
\* is therefore never entered.
generate_flashcards_from_file_section_by_ids(tks, task_id, path, chapter_ids, env) ==
    IF task_id = ""
    THEN <<Return(500, FALSE, "task_id_required", <<>>)>>
    ELSE IF chapter_ids = <<>>
    THEN <<W("failed"), Return(500, FALSE, "chapter_ids_empty", <<>>)>>
    ELSE LET g == get_task(tks, task_id, env.lookup_ok) IN
         IF ~g.found
         THEN <<Return(500, FALSE, "task_missing", <<>>)>>
         ELSE IF g.row.info = None /\ path # "present"
         THEN <<W("failed"), Return(500, FALSE, "file_missing", <<>>)>>
         ELSE IF g.row.info = None /\ ~env.upload_ok
         THEN <<W("file_uploading"), Upload, W("failed"),
                Return(500, FALSE, "exception", <<>>)>>
         ELSE (IF g.row.info = None THEN <<W("file_uploading"), Upload>>
               ELSE <<>>)
              \o <<W("ai_processing"), W("generating_cards")>>
              \o <<W("failed"), Return(500, FALSE, "exception", <<>>)>>

analyze_catalog_from_file_ready_early(task_id, env) ==
    IF task_id = ""
    THEN <<Return(500, FALSE, "server_error", <<>>)>>
    ELSE <<W("file_uploading"), Upload>>
         \o (IF ~env.upload_ok
             THEN <<W("failed"), Return(500, FALSE, "server_error", <<>>)>>
             ELSE <<SaveInfo(env.lookup_ok), W("ai_processing"),
                    W("generating_catalog"), W("catalog_ready"),
                    Chat("chat_with_multimedia")>>
                  \o (IF env.ais[1].kind = "raise"
                      THEN <<W("failed"),
                             Return(500, FALSE, "server_error", <<>>)>>
                      ELSE <<Return(200, TRUE, None, env.ais[1].cards)>>))

\* CatalogService.analyze_catalog_from_file: returns the parsed completion,
\* whatever it is; an exception is re-raised after the write of failed and
\* becomes the view's 500
analyze_catalog_from_file(task_id, env) ==
    IF task_id = ""
    THEN <<Return(500, FALSE, "server_error", <<>>)>>
    ELSE <<W("file_uploading"), Upload>>
         \o (IF ~env.upload_ok
             THEN <<W("failed"), Return(500, FALSE, "server_error", <<>>)>>
             ELSE <<SaveInfo(env.lookup_ok), W("ai_processing"),
                    W("generating_catalog"), Chat("chat_with_multimedia")>>
                  \o (IF env.ais[1].kind = "raise"
                      THEN <<W("failed"),
                             Return(500, FALSE, "server_error", <<>>)>>
                      ELSE <<W("catalog_ready"),
                             Return(200, TRUE, None, env.ais[1].cards)>>))

----------------------------------------------------------------------------
(* business/views.py: what each view does with a request, up to the call   *)
(* of the business function                                                *)

\* the fields of a request; a view reads the ones it knows
DefaultInp ==
    [task_id |-> "", text |-> "", has_file |-> FALSE, file_name |-> "a.pdf",
     oversize |-> FALSE, url |-> "", card_number |-> "none",
     ids_kind |-> "list", ids |-> <<>>, lookup_ok |-> TRUE]

BadRequest(error) == <<Return(400, FALSE, error, <<>>)>>

\* views.generate_flashcards_from_text
views_generate_flashcards_from_text(tks, inp) ==
    LET validation == validate_task(tks, inp.task_id, "text", None, inp.lookup_ok)
        task == validation.task
    IN  IF inp.task_id = "" THEN BadRequest("task_id_required")
        ELSE IF ~validation.valid THEN BadRequest(validation.error)
        ELSE IF inp.text = "" THEN BadRequest("text_required")
        ELSE IF task.text # None /\ TextLen(inp.text) # TextLen(task.text)
        THEN BadRequest("text_length_mismatch")
        ELSE <<Call("generate_flashcards_from_text")>>

\* views.generate_flashcards_from_file
views_generate_flashcards_from_file(tks, inp) ==
    LET validation == validate_task(tks, inp.task_id, "file", None, inp.lookup_ok)
        task == validation.task
    IN  IF inp.task_id = "" THEN BadRequest("task_id_required")
        ELSE IF ~inp.has_file THEN BadRequest("file_required")
        ELSE IF ~validation.valid THEN BadRequest(validation.error)
        ELSE IF task.file_name # None /\ inp.file_name # task.file_name
        THEN BadRequest("file_name_mismatch")
        ELSE IF inp.oversize
        THEN <<W("failed"), Return(400, FALSE, "file_too_large", <<>>)>>
        ELSE <<Call("generate_flashcards_from_file")>>

\* views.generate_flashcards_from_url
views_generate_flashcards_from_url(tks, inp) ==
    LET validation == validate_task(tks, inp.task_id, "web", None, inp.lookup_ok)
        task == validation.task
    IN  IF inp.task_id = "" THEN BadRequest("task_id_required")
        ELSE IF ~validation.valid THEN BadRequest(validation.error)
        ELSE IF inp.url = "" THEN BadRequest("url_required")
        ELSE IF task.web_url # None /\ inp.url # task.web_url
        THEN BadRequest("url_mismatch")
        ELSE IF inp.card_number = "bad" THEN BadRequest("card_number")
        ELSE <<Call("generate_flashcards_from_url")>>

views_generate_flashcards_from_file_section_skips_status_check(tks, inp) ==
    LET validation == validate_task(tks, inp.task_id, "file", None, inp.lookup_ok)
        task == validation.task
        chapter_ids == IF inp.ids_kind = "list" THEN inp.ids ELSE <<>>
    IN  IF inp.task_id = "" THEN BadRequest("task_id_required")
        ELSE IF ~inp.has_file THEN BadRequest("file_required")
        ELSE IF inp.ids_kind = "invalid" THEN BadRequest("chapter_ids_format")
        ELSE IF ~validation.valid THEN BadRequest(validation.error)
        ELSE IF task.file_name # None /\ inp.file_name # task.file_name
        THEN <<W("failed"), Return(400, FALSE, "file_name_mismatch", <<>>)>>
        ELSE IF chapter_ids = <<>>
        THEN <<W("failed"), Return(400, FALSE, "chapter_ids_required", <<>>)>>
        ELSE <<Selected(chapter_ids)>>
             \o (IF inp.oversize
                 THEN <<W("failed"),
                        Return(400, FALSE, "file_too_large", <<>>)>>
                 ELSE <<Call("generate_flashcards_from_file_section_by_ids")>>)

\* views.generate_flashcards_from_file_section
views_generate_flashcards_from_file_section(tks, inp) ==
    LET validation == validate_task(tks, inp.task_id, "file", None, inp.lookup_ok)
        task == validation.task
        chapter_ids == IF inp.ids_kind = "list" THEN inp.ids ELSE <<>>
    IN  IF inp.task_id = "" THEN BadRequest("task_id_required")
        ELSE IF ~inp.has_file THEN BadRequest("file_required")
        ELSE IF inp.ids_kind = "invalid" THEN BadRequest("chapter_ids_format")
        ELSE IF ~validation.valid THEN BadRequest(validation.error)
        ELSE IF task.status # "catalog_ready"
        THEN BadRequest("status_not_catalog_ready")
        ELSE IF task.file_name # None /\ inp.file_name # task.file_name
        THEN <<W("failed"), Return(400, FALSE, "file_name_mismatch", <<>>)>>
        ELSE IF chapter_ids = <<>>
        THEN <<W("failed"), Return(400, FALSE, "chapter_ids_required", <<>>)>>
        ELSE <<Selected(chapter_ids)>>
             \o (IF inp.oversize
                 THEN <<W("failed"),
                        Return(400, FALSE, "file_too_large", <<>>)>>
                 ELSE <<Call("generate_flashcards_from_file_section_by_ids")>>)

views_analyze_catalog_from_file_fails_task(tks, inp) ==
    LET validation == validate_task(tks, inp.task_id, "file", "extract_catalog",
                                    inp.lookup_ok)
        task == validation.task
    IN  IF inp.task_id = "" THEN BadRequest("task_id_required")
        ELSE IF ~inp.has_file THEN BadRequest("file_required")
        ELSE IF ~validation.valid
        THEN <<W("failed"), Return(400, FALSE, validation.error, <<>>)>>
        ELSE IF task.file_name # None /\ inp.file_name # task.file_name
        THEN <<W("failed"), Return(400, FALSE, "file_name_mismatch", <<>>)>>
        ELSE IF inp.oversize
        THEN <<W("failed"), Return(400, FALSE, "file_too_large", <<>>)>>
        ELSE <<Call("analyze_catalog_from_file")>>

\* views.analyze_catalog_from_file
views_analyze_catalog_from_file(tks, inp) ==
    LET validation == validate_task(tks, inp.task_id, "file", "extract_catalog",
                                    inp.lookup_ok)
        task == validation.task
    IN  IF inp.task_id = "" THEN BadRequest("task_id_required")
        ELSE IF ~inp.has_file THEN BadRequest("file_required")
        ELSE IF ~validation.valid THEN BadRequest(validation.error)
        ELSE IF task.file_name # None /\ inp.file_name # task.file_name
        THEN <<W("failed"), Return(400, FALSE, "file_name_mismatch", <<>>)>>
        ELSE IF inp.oversize
        THEN <<W("failed"), Return(400, FALSE, "file_too_large", <<>>)>>
        ELSE <<Call("analyze_catalog_from_file")>>

----------------------------------------------------------------------------
(* Requests *)

\* the task a request names (t2 is a row no request names), and whether the
\* view's select of it succeeds
TaskIdInputs ==
    {<<"t1", TRUE>>, <<"t1", FALSE>>, <<MissingTaskId, TRUE>>, <<"", TRUE>>}

Endpoints ==
    {"flashcards/generate/text", "flashcards/generate/file",
     "flashcards/generate/url", "flashcards/generate/file/section",
     "catalog/file"}

\* the task_type and workflow_type each view passes to validate_task
ExpectedTaskType(endpoint) ==
    CASE endpoint = "flashcards/generate/text" -> "text"
      [] endpoint = "flashcards/generate/url" -> "web"
      [] OTHER -> "file"

ExpectedWorkflowType(endpoint) ==
    IF endpoint = "catalog/file" THEN "extract_catalog" ELSE None

TextInputs ==
    {[DefaultInp EXCEPT !.task_id = t[1], !.text = x, !.lookup_ok = t[2]] :
        t \in TaskIdInputs, x \in Texts}

FileInputs ==
    {[DefaultInp EXCEPT !.task_id = t[1], !.has_file = TRUE, !.file_name = f,
                        !.oversize = o, !.lookup_ok = t[2]] :
        t \in TaskIdInputs, f \in FileNames, o \in BOOLEAN}
    \cup {[DefaultInp EXCEPT !.task_id = "t1"]}

UrlInputs ==
    {[DefaultInp EXCEPT !.task_id = t[1], !.url = u, !.lookup_ok = t[2]] :
        t \in TaskIdInputs, u \in Urls}
    \cup {[DefaultInp EXCEPT !.task_id = "t1", !.url = "http://a",
                             !.card_number = "bad"]}

FileSectionInputs ==
    {[i EXCEPT !.ids = ids] : i \in FileInputs, ids \in ChapterIdLists}
    \cup {[i EXCEPT !.ids_kind = k] :
        i \in {j \in FileInputs : j.has_file /\ ~j.oversize},
        k \in ChapterIdInputs \ {"list"}}

\* the outcomes that matter to each business function; a multi-section run
\* has one AI answer in store for each section it is asked for
EnvOf(fn, inp) ==
    CASE fn = "generate_flashcards_from_text" ->
           {e \in {[DefaultEnv EXCEPT !.ais = a, !.lookup_ok = l,
                                      !.result_ok = r, !.cards_ok = c] :
                    a \in AiSeqs(1), l \in BOOLEAN, r \in BOOLEAN,
                    c \in BOOLEAN} :
                /\ e.ais[1].kind # "list" => e.lookup_ok
                /\ ~(e.ais[1].kind = "list" /\ e.lookup_ok) => e.result_ok
                /\ ~e.result_ok => e.cards_ok}
      [] fn = "generate_flashcards_from_file" ->
           {e \in {[DefaultEnv EXCEPT !.ais = a, !.lookup_ok = l,
                                      !.result_ok = r, !.cards_ok = c] :
                    a \in AiSeqs(1), l \in BOOLEAN, r \in BOOLEAN,
                    c \in BOOLEAN} :
                /\ e.ais[1].kind # "list" => e.lookup_ok
                /\ ~(e.ais[1].kind = "list" /\ e.lookup_ok) => e.result_ok
                /\ ~e.result_ok => e.cards_ok}
           \cup {[DefaultEnv EXCEPT !.upload_ok = FALSE]}
      [] fn = "generate_flashcards_from_url" ->
           {[DefaultEnv EXCEPT !.ais = a] : a \in AiSeqs(1)}
           \cup {[DefaultEnv EXCEPT !.crawl = c] : c \in {"empty", "raise"}}
      [] fn = "generate_flashcards_from_file_section_by_ids" ->
           {[DefaultEnv EXCEPT !.ais = a, !.lookup_ok = l, !.upload_ok = u] :
                a \in AiSeqs(Len(ResolvedSections(inp.ids))),
                l \in BOOLEAN, u \in BOOLEAN}
      [] fn = "analyze_catalog_from_file" ->
           {[DefaultEnv EXCEPT !.ais = a, !.lookup_ok = l] :
                a \in AiSeqs(1), l \in BOOLEAN}
           \cup {[DefaultEnv EXCEPT !.upload_ok = FALSE]}

\* the calls of the business function a view hands the request to; the
\* views store the upload in a temporary file and pass its path
Business(fn, tks, inp, env) ==
    CASE fn = "generate_flashcards_from_text" ->
           generate_flashcards_from_text(tks, inp.task_id, inp.text, env)
      [] fn = "generate_flashcards_from_file" ->
           generate_flashcards_from_file(tks, inp.task_id, "present", env)
      [] fn = "generate_flashcards_from_url" ->
           generate_flashcards_from_url(inp.url, env)
      [] fn = "generate_flashcards_from_file_section_by_ids" ->
           generate_flashcards_from_file_section_by_ids(
               tks, inp.task_id, "present", inp.ids, env)
      [] fn = "analyze_catalog_from_file" ->
           analyze_catalog_from_file(inp.task_id, env)

IdleRequest ==
    [pc |-> "idle", endpoint |-> None, inp |-> DefaultInp,
     validation |-> [valid |-> FALSE, error |-> None, task |-> NoRow],
     script |-> <<>>, ip |-> 0, env |-> DefaultEnv]

Running(w) == req[w].pc = "running"
NextCall(w) == req[w].script[req[w].ip + 1]
Advance(w) == [req EXCEPT ![w].ip = @ + 1]

\* A worker takes a request: the view's checks, with the one read of the task
StartRequest(w, endpoint, inp, script) ==
    /\ req[w].pc = "idle"
    /\ req' = [req EXCEPT ![w] =
                 [pc |-> "running", endpoint |-> endpoint, inp |-> inp,
                  validation |->
                      validate_task(tasks, inp.task_id,
                                    ExpectedTaskType(endpoint),
                                    ExpectedWorkflowType(endpoint),
                                    inp.lookup_ok),
                  script |-> script, ip |-> 0, env |-> DefaultEnv]]
    /\ UNCHANGED <<tasks, catalogs, results, flashcards>>

PostGenerateText(w) ==
    \E inp \in TextInputs :
        StartRequest(w, "flashcards/generate/text", inp,
                     views_generate_flashcards_from_text(tasks, inp))

PostGenerateFile(w) ==
    \E inp \in FileInputs :
        StartRequest(w, "flashcards/generate/file", inp,
                     views_generate_flashcards_from_file(tasks, inp))

PostGenerateUrl(w) ==
    \E inp \in UrlInputs :
        StartRequest(w, "flashcards/generate/url", inp,
                     views_generate_flashcards_from_url(tasks, inp))

PostGenerateFileSection(w) ==
    \E inp \in FileSectionInputs :
        StartRequest(w, "flashcards/generate/file/section", inp,
                     views_generate_flashcards_from_file_section(tasks, inp))

PostCatalogFile(w) ==
    \E inp \in FileInputs :
        StartRequest(w, "catalog/file", inp,
                     views_analyze_catalog_from_file(tasks, inp))

\* The view calls the business function
EnterBusiness(w) ==
    /\ Running(w)
    /\ NextCall(w).op = "call"
    /\ \E env \in EnvOf(NextCall(w).st, req[w].inp) :
          req' = [req EXCEPT
                    ![w].script = SubSeq(@, 1, req[w].ip + 1)
                                  \o Business(NextCall(w).st, tasks, req[w].inp, env),
                    ![w].ip = @ + 1,
                    ![w].env = env]
    /\ UNCHANGED <<tasks, catalogs, results, flashcards>>

\* task_mgr.update_status
UpdateStatus(w) ==
    /\ Running(w)
    /\ NextCall(w).op = "update_status"
    /\ tasks' = update_status(tasks, req[w].inp.task_id, NextCall(w).st)
    /\ req' = Advance(w)
    /\ UNCHANGED <<catalogs, results, flashcards>>

\* upload_files, chat, chat_with_multimedia, the crawler: no row changes
ExternalCall(w) ==
    /\ Running(w)
    /\ NextCall(w).op \in {"upload_files", "external"}
    /\ req' = Advance(w)
    /\ UNCHANGED <<tasks, catalogs, results, flashcards>>

\* CatalogService.analyze_catalog_from_file, step 2.1: the media reference is
\* stored in input_data.file.info when the task is found
SaveMultimedia(w) ==
    /\ Running(w)
    /\ NextCall(w).op = "save_multimedia"
    /\ LET g == get_task(tasks, req[w].inp.task_id, NextCall(w).ok) IN
       tasks' = IF g.found
                THEN [tasks EXCEPT ![req[w].inp.task_id].info = UploadedMedia]
                ELSE tasks
    /\ req' = Advance(w)
    /\ UNCHANGED <<catalogs, results, flashcards>>

\* CatalogDB.update_selected_sections: selected is replaced in the rows of
\* the task
UpdateSelected(w) ==
    /\ Running(w)
    /\ NextCall(w).op = "update_selected"
    /\ catalogs' = [t \in DOMAIN catalogs |->
                      IF t = req[w].inp.task_id /\ catalogs[t].exists
                      THEN [catalogs[t] EXCEPT !.selected = NextCall(w).cards]
                      ELSE catalogs[t]]
    /\ req' = Advance(w)
    /\ UNCHANGED <<tasks, results, flashcards>>

\* FlashcardResultDB.create_result
InsertResult(w) ==
    /\ Running(w)
    /\ NextCall(w).op = "create_result"
    /\ results' = IF NextCall(w).ok
                  THEN Append(results,
                              [task_id |-> req[w].inp.task_id,
                               source_type |-> NextCall(w).st,
                               total_count |-> NextCall(w).n])
                  ELSE results
    /\ req' = Advance(w)
    /\ UNCHANGED <<tasks, catalogs, flashcards>>

\* FlashcardDB.batch_create_flashcards, for the result row just created
InsertFlashcards(w) ==
    /\ Running(w)
    /\ NextCall(w).op = "create_flashcards"
    /\ flashcards' = IF NextCall(w).ok
                     THEN flashcards
                          \o [i \in 1..Len(NextCall(w).cards) |->
                                [result_id |-> Len(results),
                                 order_index |-> i - 1,
                                 card |-> NextCall(w).cards[i],
                                 is_deleted |-> FALSE]]
                     ELSE flashcards
    /\ req' = Advance(w)
    /\ UNCHANGED <<tasks, catalogs, results>>

\* The JsonResponse is returned
Respond(w) ==
    /\ Running(w)
    /\ NextCall(w).op = "return"
    /\ req' = [req EXCEPT ![w].ip = @ + 1, ![w].pc = "done"]
    /\ UNCHANGED <<tasks, catalogs, results, flashcards>>

\* The worker is free for the next request
Release(w) ==
    /\ req[w].pc = "done"
    /\ req' = [req EXCEPT ![w] = IdleRequest]
    /\ UNCHANGED <<tasks, catalogs, results, flashcards>>

----------------------------------------------------------------------------
(* Initial state: the rows the external caller created *)

InitRow(ty, wf, recorded) ==
    [task_type |-> ty, workflow_type |-> wf, status |-> "created",
     user_id |-> "u1",
     text |-> IF ty = "text" /\ recorded THEN "x" ELSE None,
     file_name |-> IF ty = "file" /\ recorded THEN "a.pdf" ELSE None,
     info |-> None,
     web_url |-> IF ty = "web" /\ recorded THEN "http://a" ELSE None]

InitRows ==
    {InitRow(ty, wf, r) : ty \in TaskTypes, wf \in WorkflowTypes, r \in BOOLEAN}

NoCatalog == [exists |-> FALSE, selected |-> <<>>]

\* the Catalog Engine has nothing at hand
NoCalc ==
    [stage |-> "none", catalog_data |-> <<>>, catalog_with_ids |-> <<>>,
     chapter_ids |-> <<>>, section_titles |-> <<>>, titles |-> <<>>]

Init ==
    /\ tasks \in [TaskIds -> InitRows]
    /\ tasks["t2"] = InitRow("file", "extract_catalog", TRUE)
    /\ catalogs \in [TaskIds -> {NoCatalog, [NoCatalog EXCEPT !.exists = TRUE]}]
    /\ \A t \in TaskIds : catalogs[t].exists => tasks[t].task_type = "file"
    /\ results = <<>>
    /\ flashcards = <<>>
    /\ req = [w \in Workers |-> IdleRequest]
    /\ calc = NoCalc

Step(w) ==
    \/ PostGenerateText(w)
    \/ PostGenerateFile(w)
    \/ PostGenerateUrl(w)
    \/ PostGenerateFileSection(w)
    \/ PostCatalogFile(w)
    \/ EnterBusiness(w)
    \/ UpdateStatus(w)
    \/ ExternalCall(w)
    \/ SaveMultimedia(w)
    \/ UpdateSelected(w)
    \/ InsertResult(w)
    \/ InsertFlashcards(w)
    \/ Respond(w)
    \/ Release(w)

\* requests are handled one at a time (single writer per task)
Next == \E w \in SeqWorkers : Step(w) /\ UNCHANGED calc

Spec == Init /\ [][Next]_vars

----------------------------------------------------------------------------
(* Catalog Engine: business/database/catalog_db.py (addressing) and the      *)
(* title resolution of business/flashcard.py, on outlines of chapters,      *)
(* sections and subsections                                                 *)

\* how many sections a chapter and how many subsections a section can have
SectionCounts == {0, 1, 2}
SubsectionCounts == {0, 2}

\* labels: numbered by position among the siblings, or the same everywhere
LabelVariants == {"numbered", "same"}

Label(prefix, idx, variant) ==
    IF variant = "same" THEN "T" ELSE prefix \o ToString(idx)

\* a node whose list of children is empty carries the key or not (omit)
MakeSubsection(i, variant) ==
    [subsection |-> Label("U", i, variant), description |-> "d"]

MakeSection(j, n, variant, omit) ==
    IF n = 0 /\ omit
    THEN [section |-> Label("S", j, variant), description |-> "d"]
    ELSE [section |-> Label("S", j, variant), description |-> "d",
          subsections |-> [i \in 1..n |-> MakeSubsection(i, variant)]]

MakeChapter(k, shape, variant, omit) ==
    IF shape = <<>> /\ omit
    THEN [chapter |-> Label("C", k, variant), description |-> "d"]
    ELSE [chapter |-> Label("C", k, variant), description |-> "d",
          sections |-> [j \in 1..Len(shape) |->
                           MakeSection(j, shape[j], variant, omit)]]

\* the shape of a chapter: the number of subsections of each of its sections
ChapterShapes == UNION {[1..n -> SubsectionCounts] : n \in SectionCounts}
ForestShapes == UNION {[1..n -> ChapterShapes] : n \in 0..MaxChapters}

MakeForest(shape, variant, omit) ==
    [k \in 1..Len(shape) |-> MakeChapter(k, shape[k], variant, omit)]

\* the outlines the AI collaborator's parsed output can be
Forests ==
    {MakeForest(shape, variant, omit) :
        shape \in ForestShapes, variant \in LabelVariants, omit \in BOOLEAN}

\* dict.get(key): the value, or None when the key is absent
Get(item, key) == IF key \in DOMAIN item THEN item[key] ELSE None

\* dict.copy() followed by copy['id'] = id
WithId(item, id) ==
    [f \in DOMAIN item \cup {"id"} |-> IF f = "id" THEN id ELSE item[f]]

\* `key in item and item[key]`: the key is there and its list is not empty
HasList(item, key) == key \in DOMAIN item /\ item[key] # <<>>

generate_catalog_ids_same_section_id(catalog_data) ==
    [k \in 1..Len(catalog_data) |->
        LET chapter_id == ToString(k)
            chapter_copy == WithId(catalog_data[k], chapter_id)
        IN  IF ~HasList(chapter_copy, "sections") THEN chapter_copy
            ELSE [chapter_copy EXCEPT !.sections =
                    [j \in 1..Len(chapter_copy.sections) |->
                        WithId(chapter_copy.sections[j],
                               chapter_id \o "." \o ToString(1))]]]

generate_catalog_ids_zero_based(catalog_data) ==
    [k \in 1..Len(catalog_data) |->
        WithId(catalog_data[k], ToString(k - 1))]

generate_catalog_ids_drops_description(catalog_data) ==
    [k \in 1..Len(catalog_data) |->
        WithId([f \in DOMAIN catalog_data[k] \ {"description"} |->
                   catalog_data[k][f]], ToString(k))]

\* CatalogDB._generate_catalog_ids
generate_catalog_ids(catalog_data) ==
    [k \in 1..Len(catalog_data) |->
        LET chapter_id == ToString(k)
            chapter_copy == WithId(catalog_data[k], chapter_id)
        IN  IF ~HasList(chapter_copy, "sections") THEN chapter_copy
            ELSE [chapter_copy EXCEPT !.sections =
                    [j \in 1..Len(chapter_copy.sections) |->
                        LET section_id == chapter_id \o "." \o ToString(j)
                            section_copy ==
                                WithId(chapter_copy.sections[j], section_id)
                        IN  IF ~HasList(section_copy, "subsections")
                            THEN section_copy
                            ELSE [section_copy EXCEPT !.subsections =
                                    [i \in 1..Len(section_copy.subsections) |->
                                        WithId(section_copy.subsections[i],
                                               section_id \o "." \o ToString(i))]]]]]

\* the lists under the keys 'sections' and 'subsections' of an item, in the
\* order the walks visit them
Children(item) ==
    (IF "sections" \in DOMAIN item THEN item.sections ELSE <<>>)
    \o (IF "subsections" \in DOMAIN item THEN item.subsections ELSE <<>>)

\* the recursive walk shared by search_catalog and build_mapping: every item
\* with the items above it, in document order
RECURSIVE search_catalog(_, _)
search_catalog(items, parents) ==
    IF items = <<>> THEN <<>>
    ELSE <<[item |-> Head(items), parents |-> parents]>>
         \o search_catalog(Children(Head(items)), Append(parents, Head(items)))
         \o search_catalog(Tail(items), parents)

\* next((p[key] for p in parents if key in p), "")
ParentLabel(parents, key) ==
    LET having == SelectSeq(parents, LAMBDA p : key \in DOMAIN p)
    IN  IF having = <<>> THEN "" ELSE Head(having)[key]

\* the display title of an item: its label after the labels of the chapter
\* and section above it; None for an item that has no label key
PathTitle(item, parents) ==
    LET parent_chapter == ParentLabel(parents, "chapter")
        parent_section == ParentLabel(parents, "section")
    IN  IF "chapter" \in DOMAIN item THEN item.chapter
        ELSE IF "section" \in DOMAIN item
        THEN IF parent_chapter # ""
             THEN parent_chapter \o " - " \o item.section
             ELSE item.section
        ELSE IF "subsection" \in DOMAIN item
        THEN IF parent_chapter # "" /\ parent_section # ""
             THEN parent_chapter \o " - " \o parent_section \o " - "
                  \o item.subsection
             ELSE IF parent_section # ""
             THEN parent_section \o " - " \o item.subsection
             ELSE item.subsection
        ELSE None

InList(x, list) == \E i \in 1..Len(list) : list[i] = x

\* FlashcardBusiness._get_section_titles_by_ids
get_section_titles_by_ids(catalog, chapter_ids) ==
    LET found == SelectSeq(search_catalog(catalog, <<>>),
                           LAMBDA e : /\ InList(Get(e.item, "id"), chapter_ids)
                                      /\ PathTitle(e.item, e.parents) # None)
    IN  [i \in 1..Len(found) |-> PathTitle(found[i].item, found[i].parents)]

\* check_children of _filter_leaf_sections: the chosen ids of the items one
\* of whose direct children is chosen
has_selected_children(catalog, chapter_ids) ==
    LET walk == search_catalog(catalog, <<>>) IN
    {Get(walk[n].item, "id") : n \in
        {m \in 1..Len(walk) :
            /\ InList(Get(walk[m].item, "id"), chapter_ids)
            /\ \E c \in 1..Len(Children(walk[m].item)) :
                  InList(Get(Children(walk[m].item)[c], "id"), chapter_ids)}}

\* build_mapping of _filter_leaf_sections: id_to_title.get(id); a later item
\* replaces an earlier one of the same id
id_to_title(catalog, id) ==
    LET walk == search_catalog(catalog, <<>>)
        hits == {m \in 1..Len(walk) :
                    /\ Get(walk[m].item, "id") = id
                    /\ id # None /\ id # ""
                    /\ PathTitle(walk[m].item, walk[m].parents) \notin {None, ""}}
    IN  IF hits = {} THEN None
        ELSE LET last == CHOOSE m \in hits : \A n \in hits : n <= m
             IN  PathTitle(walk[last].item, walk[last].parents)

\* FlashcardBusiness._filter_leaf_sections
filter_leaf_sections(section_titles, chapter_ids, catalog) ==
    LET kept == SelectSeq(chapter_ids,
                    LAMBDA a : /\ a \notin has_selected_children(catalog, chapter_ids)
                               /\ id_to_title(catalog, a) # None)
    IN  [i \in 1..Len(kept) |-> id_to_title(catalog, kept[i])]

\* the addresses a request can choose: of small outlines, and stale ones
AddressUniverse ==
    {"1", "2", "1.1", "1.2", "2.1", "1.1.1", "1.1.2", "9", "1.9"}

\* the chosen address lists: without repetition, of length up to two, and
\* two lists that choose a whole branch
ChosenLists ==
    {<<>>}
    \cup {<<a>> : a \in AddressUniverse}
    \cup {p \in {<<a, b>> : a \in AddressUniverse, b \in AddressUniverse} :
               p[1] # p[2]}
    \cup {<<"1", "1.1", "1.1.1">>, <<"1.1.2", "9", "1">>}

\* CatalogDB.create_catalog, line 87: the parsed outline gets its addresses
GenerateCatalogIds ==
    /\ calc.stage = "input"
    /\ calc' = [calc EXCEPT !.stage = "addressed",
                            !.catalog_with_ids =
                                generate_catalog_ids(calc.catalog_data)]
    /\ UNCHANGED <<tasks, catalogs, results, flashcards, req>>

\* the addressing is run on an outline that carries addresses already
GenerateCatalogIdsAgain ==
    /\ calc.stage = "addressed"
    /\ calc' = [calc EXCEPT !.stage = "readdressed",
                            !.catalog_data = calc.catalog_with_ids,
                            !.catalog_with_ids =
                                generate_catalog_ids(calc.catalog_with_ids)]
    /\ UNCHANGED <<tasks, catalogs, results, flashcards, req>>

\* generate_flashcards_from_file_section_by_ids, lines 1042-1045: the chosen
\* addresses are resolved to titles and the titles filtered
ResolveTitles ==
    /\ calc.stage = "addressed"
    /\ \E chapter_ids \in ChosenLists :
          LET section_titles ==
                  get_section_titles_by_ids(calc.catalog_with_ids, chapter_ids)
          IN  calc' = [calc EXCEPT
                         !.stage = "resolved",
                         !.chapter_ids = chapter_ids,
                         !.section_titles = section_titles,
                         !.titles = filter_leaf_sections(
                                        section_titles, chapter_ids,
                                        calc.catalog_with_ids)]
    /\ UNCHANGED <<tasks, catalogs, results, flashcards, req>>

CatalogInit ==
    /\ tasks = [t \in TaskIds |-> InitRow("file", "extract_catalog", TRUE)]
    /\ catalogs = [t \in TaskIds |-> NoCatalog]
    /\ results = <<>>
    /\ flashcards = <<>>
    /\ req = [w \in Workers |-> IdleRequest]
    /\ calc \in {[NoCalc EXCEPT !.stage = "input", !.catalog_data = f] :
                    f \in Forests}

CatalogNext ==
    \/ GenerateCatalogIds
    \/ GenerateCatalogIdsAgain
    \/ ResolveTitles

CatalogSpec == CatalogInit /\ [][CatalogNext]_vars

----------------------------------------------------------------------------
(* Saving the cards of a run: FlashcardBusiness._save_flashcards,           *)
(* _build_section_id_map, _convert_card_to_jsonb, _detect_card_type, and    *)
(* the section loop of generate_flashcards_from_file_section_by_ids         *)

\* the keys a card returned by the AI collaborator can carry
CardFields ==
    {"question", "answer", "text", "cloze_items", "options", "correct_index"}

\* a card with the keys of the set S
MakeCard(S) == [f \in S |-> "v"]

\* the cards the AI collaborator can return: any combination of the keys
RawCards == {MakeCard(S) : S \in SUBSET CardFields}

\* the i-th card of a list of question and answer cards
BasicCard(i) == [question |-> "q" \o ToString(i), answer |-> "a"]

\* FlashcardBusiness._convert_card_to_jsonb
convert_card_to_jsonb(card) ==
    IF "question" \in DOMAIN card /\ "answer" \in DOMAIN card
    THEN [question |-> card.question, answer |-> card.answer]
    ELSE IF "text" \in DOMAIN card /\ "cloze_items" \in DOMAIN card
    THEN [text |-> card.text, cloze_items |-> card.cloze_items]
    ELSE IF "question" \in DOMAIN card /\ "options" \in DOMAIN card
    THEN [question |-> card.question, options |-> card.options,
          correct_index |-> IF "correct_index" \in DOMAIN card
                            THEN card.correct_index ELSE "0"]
    ELSE card

\* FlashcardBusiness._detect_card_type
detect_card_type(card) ==
    IF "cloze_items" \in DOMAIN card \/ "text" \in DOMAIN card THEN "cloze"
    ELSE IF "options" \in DOMAIN card THEN "multiple_choice"
    ELSE "basic"

\* FlashcardBusiness._build_section_id_map, section_map.get(title): the id
\* of the last item of the walk whose title is the given one
build_section_id_map(catalog_data, title) ==
    LET walk == search_catalog(catalog_data, <<>>)
        hits == {m \in 1..Len(walk) :
                    /\ PathTitle(walk[m].item, walk[m].parents) = title
                    /\ title \notin {None, ""}
                    /\ Get(walk[m].item, "id") \notin {None, ""}}
    IN  IF hits = {} THEN None
        ELSE LET last == CHOOSE m \in hits : \A n \in hits : n <= m
             IN  Get(walk[last].item, "id")

RECURSIVE section_rows_restarting(_, _, _, _)
section_rows_restarting(section_results, catalog_data, mapped, order_index) ==
    IF section_results = <<>> THEN <<>>
    ELSE LET section_result == Head(section_results)
             section_id ==
                 IF mapped
                 THEN build_section_id_map(catalog_data,
                                           section_result.section_title)
                 ELSE None
         IN  [i \in 1..Len(section_result.cards) |->
                 [card_type |-> detect_card_type(section_result.cards[i]),
                  card_data |-> convert_card_to_jsonb(section_result.cards[i]),
                  order_index |-> i - 1,
                  section_id |-> section_id]]
             \o section_rows_restarting(Tail(section_results), catalog_data,
                                        mapped, 0)

\* the loop over section_results of _save_flashcards: the rows of each
\* section in turn, order_index counting on from section to section
RECURSIVE section_rows(_, _, _, _)
section_rows(section_results, catalog_data, mapped, order_index) ==
    IF section_results = <<>> THEN <<>>
    ELSE LET section_result == Head(section_results)
             section_id ==
                 IF mapped
                 THEN build_section_id_map(catalog_data,
                                           section_result.section_title)
                 ELSE None
         IN  [i \in 1..Len(section_result.cards) |->
                 [card_type |-> detect_card_type(section_result.cards[i]),
                  card_data |-> convert_card_to_jsonb(section_result.cards[i]),
                  order_index |-> order_index + i - 1,
                  section_id |-> section_id]]
             \o section_rows(Tail(section_results), catalog_data, mapped,
                             order_index + Len(section_result.cards))

save_flashcards_restarts_per_section(cards, catalog_id, section_results, catalog_data) ==
    IF section_results # <<>>
    THEN section_rows_restarting(section_results, catalog_data,
                                 catalog_id # None, 0)
    ELSE [idx \in 1..Len(cards) |->
             [card_type |-> detect_card_type(cards[idx]),
              card_data |-> convert_card_to_jsonb(cards[idx]),
              order_index |-> idx - 1]]

\* FlashcardBusiness._save_flashcards: the rows handed to
\* batch_create_flashcards.  With section_results the cards are taken
\* section by section and carry a section_id, looked up by section title
\* when the run has a catalog; without, they are the cards of the run's list.
save_flashcards(cards, catalog_id, section_results, catalog_data) ==
    IF section_results # <<>>
    THEN section_rows(section_results, catalog_data, catalog_id # None, 0)
    ELSE [idx \in 1..Len(cards) |->
             [card_type |-> detect_card_type(cards[idx]),
              card_data |-> convert_card_to_jsonb(cards[idx]),
              order_index |-> idx - 1]]

\* FlashcardDB.batch_create_flashcards: the rows inserted for the result
batch_create_flashcards(result_id, rows) ==
    [i \in 1..Len(rows) |->
        [f \in DOMAIN rows[i] \cup {"result_id", "is_deleted"} |->
            IF f = "result_id" THEN result_id
            ELSE IF f = "is_deleted" THEN FALSE
            ELSE rows[i][f]]]

\* FlashcardDB.get_flashcards_by_task_id, step 2: the rows of the result that
\* are not deleted, ordered by order_index
RECURSIVE SortByOrderIndex(_)
SortByOrderIndex(rows) ==
    IF rows = {} THEN <<>>
    ELSE LET first == CHOOSE x \in rows :
                          \A y \in rows : x.order_index <= y.order_index
         IN  <<first>> \o SortByOrderIndex(rows \ {first})

get_flashcards_by_result(result_id) ==
    SortByOrderIndex({flashcards[i] : i \in
        {j \in 1..Len(flashcards) :
            /\ flashcards[j].result_id = result_id
            /\ ~flashcards[j].is_deleted}})

\* the stored outlines of the runs: a chapter with a section of two
\* subsections and a chapter without sections, labelled by position or all
\* alike
SaveForests ==
    {MakeForest(<< <<2>>, <<>> >>, variant, FALSE) : variant \in LabelVariants}

\* what the completion asked for one section decodes to: not a list, or a
\* list of up to MaxCards cards
SectionOutputs ==
    {[kind |-> "text", cards |-> <<>>]}
    \cup {[kind |-> "list", cards |-> [i \in 1..n |-> BasicCard(i)]] :
             n \in 0..MaxCards}

\* the card lists of a run without sections: one card of any kind, or up to
\* MaxCards question and answer cards
DirectOutputs ==
    {<<c>> : c \in RawCards}
    \cup {[i \in 1..n |-> BasicCard(i)] : n \in 0..MaxCards}

\* section_results after the loop over section_titles (lines 1058-1101):
\* one entry, in section order, for every section whose result is a list;
\* source records the position of the section's title in section_titles
RECURSIVE SectionResults(_, _, _)
SectionResults(section_titles, answers, k) ==
    IF k > Len(section_titles) THEN <<>>
    ELSE (IF answers[k].kind = "list"
          THEN <<[section_title |-> section_titles[k],
                  cards |-> answers[k].cards,
                  count |-> Len(answers[k].cards),
                  source |-> k]>>
          ELSE <<>>)
         \o SectionResults(section_titles, answers, k + 1)

\* all_cards after the loop: the lists of the sections, one after another
RECURSIVE AllCards(_)
AllCards(section_results) ==
    IF section_results = <<>> THEN <<>>
    ELSE Head(section_results).cards \o AllCards(Tail(section_results))

\* what a run has at hand once its cards are generated
Generated(stage, section_results, all_cards) ==
    [stage |-> stage, catalog_data |-> calc.catalog_data,
     catalog_with_ids |-> calc.catalog_with_ids,
     chapter_ids |-> calc.chapter_ids,
     section_titles |-> calc.section_titles, titles |-> calc.titles,
     section_results |-> section_results, all_cards |-> all_cards]

\* generate_flashcards_from_file_section_by_ids, lines 1058-1101: one
\* completion for each section title
GenerateSectionCards ==
    /\ calc.stage = "resolved"
    /\ calc.titles # <<>>
    /\ \E answers \in [1..Len(calc.titles) -> SectionOutputs] :
          LET section_results == SectionResults(calc.titles, answers, 1)
          IN  calc' = Generated("sections_generated", section_results,
                                AllCards(section_results))
    /\ UNCHANGED <<tasks, catalogs, results, flashcards, req>>

\* generate_flashcards_from_text / _from_file: the completion of a run
\* without sections decoded to a list
GenerateCards ==
    /\ calc.stage = "addressed"
    /\ \E cards \in DirectOutputs :
          calc' = Generated("cards_generated", <<>>, cards)
    /\ UNCHANGED <<tasks, catalogs, results, flashcards, req>>

\* _save_flashcard_result: a multi-section run saves when it has a card, a
\* run without sections whenever it has a list
SaveFlashcardResult ==
    /\ \/ calc.stage = "cards_generated"
       \/ calc.stage = "sections_generated" /\ calc.all_cards # <<>>
    /\ results' = Append(results,
                         [task_id |-> "t1", source_type |-> "file",
                          total_count |-> Len(calc.all_cards)])
    /\ calc' = [calc EXCEPT !.stage =
                   IF calc.stage = "cards_generated"
                   THEN "cards_result_saved" ELSE "sections_result_saved"]
    /\ UNCHANGED <<tasks, catalogs, flashcards, req>>

\* _save_flashcards, for the result row just created; the multi-section run
\* passes the id of the task's Catalog row and its section_results
SaveFlashcards ==
    /\ calc.stage \in {"cards_result_saved", "sections_result_saved"}
    /\ LET catalog_id == IF calc.stage = "sections_result_saved"
                            /\ catalogs["t1"].exists
                         THEN "t1" ELSE None
           rows == save_flashcards(calc.all_cards, catalog_id,
                                   calc.section_results,
                                   calc.catalog_with_ids)
       IN  flashcards' = flashcards
                         \o batch_create_flashcards(Len(results), rows)
    /\ calc' = [calc EXCEPT !.stage = "saved"]
    /\ UNCHANGED <<tasks, catalogs, results, req>>

\* a task whose Catalog row holds an addressed outline
SaveInit ==
    /\ tasks = [t \in TaskIds |-> InitRow("file", "extract_catalog", TRUE)]
    /\ catalogs = [t \in TaskIds |-> [NoCatalog EXCEPT !.exists = TRUE]]
    /\ results = <<>>
    /\ flashcards = <<>>
    /\ req = [w \in Workers |-> IdleRequest]
    /\ calc \in {[NoCalc EXCEPT !.stage = "addressed", !.catalog_data = f,
                                !.catalog_with_ids = generate_catalog_ids(f)] :
                    f \in SaveForests}

SaveNext ==
    \/ ResolveTitles
    \/ GenerateSectionCards
    \/ GenerateCards
    \/ SaveFlashcardResult
    \/ SaveFlashcards

SaveSpec == SaveInit /\ [][SaveNext]_vars

----------------------------------------------------------------------------
(* Result parser: AIWorkflow.parse_result of                                *)
(* ai_services/workflows/base_workflow.py, on completion texts made of      *)
(* tokens                                                                   *)

\* a blank, the progress prefix of four characters, the fence markers, JSON
\* values (an empty list, a list of one card, an object) and prose
Blank == " "
ProgressPrefix == "analysing"
JsonFence == "<fence>json"
Fence == "<fence>"
JsonTokens == {"[]", "[c]", "{}"}
Tokens == {Blank, ProgressPrefix, JsonFence, Fence, "x"} \cup JsonTokens

\* the completion texts: the token sequences of up to MaxTokens tokens
AiTexts == UNION {[1..n -> Tokens] : n \in 0..MaxTokens}

\* str.strip()
RECURSIVE lstrip(_)
lstrip(text) ==
    IF text # <<>> /\ Head(text) = Blank THEN lstrip(Tail(text)) ELSE text

RECURSIVE rstrip(_)
rstrip(text) ==
    IF text # <<>> /\ text[Len(text)] = Blank
    THEN rstrip(SubSeq(text, 1, Len(text) - 1))
    ELSE text

strip(text) == rstrip(lstrip(text))

startswith(text, token) == text # <<>> /\ Head(text) = token
endswith(text, token) == text # <<>> /\ text[Len(text)] = token

\* json.loads: a single JSON value decodes, anything else raises
json_loads(text) ==
    IF Len(text) = 1 /\ text[1] \in JsonTokens
    THEN [ok |-> TRUE, value |-> text[1]]
    ELSE [ok |-> FALSE, value |-> None]

\* the text parse_result hands to json.loads
cleaned_result(ai_result) ==
    LET stripped == strip(ai_result)
        unprefixed == IF startswith(stripped, ProgressPrefix)
                      THEN Tail(stripped) ELSE stripped
        opened == IF startswith(unprefixed, JsonFence) THEN Tail(unprefixed)
                  ELSE IF startswith(unprefixed, Fence) THEN Tail(unprefixed)
                  ELSE unprefixed
        closed == IF endswith(opened, Fence)
                  THEN SubSeq(opened, 1, Len(opened) - 1) ELSE opened
    IN  strip(closed)

AIWorkflow_parse_result_returns_cleaned(ai_result) ==
    LET loaded == json_loads(cleaned_result(ai_result))
    IN  IF loaded.ok THEN [decoded |-> TRUE, result |-> loaded.value]
        ELSE [decoded |-> FALSE, result |-> cleaned_result(ai_result)]

\* AIWorkflow.parse_result: the decoded value, or the text as received when
\* json.loads raises
AIWorkflow_parse_result(ai_result) ==
    LET loaded == json_loads(cleaned_result(ai_result))
    IN  IF loaded.ok THEN [decoded |-> TRUE, result |-> loaded.value]
        ELSE [decoded |-> FALSE, result |-> ai_result]

\* the parser is given a completion text
ParseResult ==
    /\ calc.stage = "completion"
    /\ calc' = [stage |-> "parsed", ai_result |-> calc.ai_result,
                result |-> AIWorkflow_parse_result(calc.ai_result)]
    /\ UNCHANGED <<tasks, catalogs, results, flashcards, req>>

\* the caller's isinstance(result, list) is evaluated on the parser's return
CheckIsList ==
    /\ calc.stage = "parsed"
    /\ calc' = [stage |-> "checked", ai_result |-> calc.ai_result,
                result |-> calc.result,
                is_list |-> calc.result.decoded
                            /\ calc.result.result \in {"[]", "[c]"}]
    /\ UNCHANGED <<tasks, catalogs, results, flashcards, req>>

ParseInit ==
    /\ tasks = [t \in TaskIds |-> InitRow("text", "direct_generate", TRUE)]
    /\ catalogs = [t \in TaskIds |-> NoCatalog]
    /\ results = <<>>
    /\ flashcards = <<>>
    /\ req = [w \in Workers |-> IdleRequest]
    /\ calc \in {[stage |-> "completion", ai_result |-> t] : t \in AiTexts}

ParseNext == ParseResult \/ CheckIsList

ParseSpec == ParseInit /\ [][ParseNext]_vars

----------------------------------------------------------------------------
(* Two requests at a time: the views and business functions hold no lock   *)
(* and every call of a request is a separate step, so the calls of two     *)
(* requests on the same task interleave freely                             *)

\* the requests made side by side: for the task t1, with its recorded file,
\* the selection empty or the first chapter
ConcInputs(inputs) ==
    {inp \in inputs :
        /\ inp.task_id = "t1" /\ inp.lookup_ok
        /\ inp.has_file /\ ~inp.oversize /\ inp.file_name = "a.pdf"
        /\ inp.ids_kind = "list" /\ inp.ids \in {<<>>, <<"1">>}}

\* the collaborators' outcomes: the store works, the upload works or raises,
\* a completion raises or is a list of one card
ConcEnvs(fn, inp) ==
    {e \in EnvOf(fn, inp) :
        /\ e.lookup_ok /\ e.result_ok /\ e.cards_ok
        /\ \A i \in 1..Len(e.ais) :
              \/ e.ais[i].kind = "raise"
              \/ e.ais[i] = [kind |-> "list", cards |-> CardList(1)]}

ConcPostGenerateFile(w) ==
    \E inp \in ConcInputs(FileInputs) :
        StartRequest(w, "flashcards/generate/file", inp,
                     views_generate_flashcards_from_file(tasks, inp))

ConcPostGenerateFileSection(w) ==
    \E inp \in ConcInputs(FileSectionInputs) :
        StartRequest(w, "flashcards/generate/file/section", inp,
                     views_generate_flashcards_from_file_section(tasks, inp))

ConcPostCatalogFile(w) ==
    \E inp \in ConcInputs(FileInputs) :
        StartRequest(w, "catalog/file", inp,
                     views_analyze_catalog_from_file(tasks, inp))

\* The view calls the business function
ConcEnterBusiness(w) ==
    /\ Running(w)
    /\ NextCall(w).op = "call"
    /\ \E env \in ConcEnvs(NextCall(w).st, req[w].inp) :
          req' = [req EXCEPT
                    ![w].script = SubSeq(@, 1, req[w].ip + 1)
                                  \o Business(NextCall(w).st, tasks, req[w].inp, env),
                    ![w].ip = @ + 1,
                    ![w].env = env]
    /\ UNCHANGED <<tasks, catalogs, results, flashcards>>

ConcStep(w) ==
    \/ ConcPostGenerateFile(w)
    \/ ConcPostGenerateFileSection(w)
    \/ ConcPostCatalogFile(w)
    \/ ConcEnterBusiness(w)
    \/ UpdateStatus(w)
    \/ ExternalCall(w)
    \/ SaveMultimedia(w)
    \/ UpdateSelected(w)
    \/ InsertResult(w)
    \/ InsertFlashcards(w)
    \/ Respond(w)

\* a file task of the catalog workflow, just created, with its Catalog row
ConcInit ==
    /\ tasks = [t \in TaskIds |-> InitRow("file", "extract_catalog", TRUE)]
    /\ catalogs = [t \in TaskIds |-> [NoCatalog EXCEPT !.exists = TRUE]]
    /\ results = <<>>
    /\ flashcards = <<>>
    /\ req = [w \in Workers |-> IdleRequest]
    /\ calc = NoCalc

\* each worker handles one request; the two requests run side by side
ConcNext == \E w \in Workers : ConcStep(w) /\ UNCHANGED calc

ConcSpec == ConcInit /\ [][ConcNext]_vars

----------------------------------------------------------------------------
(* Properties *)

Terminal(status) == status \in {"completed", "failed"}

\* the calls a request has made so far, and the statuses it has written
Executed(w) == SubSeq(req[w].script, 1, req[w].ip)

StatusWrites(calls) ==
    LET ws == SelectSeq(calls, LAMBDA e : e.op = "update_status")
    IN  [i \in 1..Len(ws) |-> ws[i].st]

IsPrefix(a, b) == Len(a) <= Len(b) /\ a = SubSeq(b, 1, Len(a))

\* the request is taken in this step
Taken(w) == req[w].pc = "idle" /\ req'[w].pc = "running"

\* the view answers 400 without doing anything else
Rejected(script) ==
    /\ Len(script) = 1
    /\ script[1].op = "return" /\ script[1].n = 400 /\ ~script[1].ok

\* C1: once the stored status of a task is completed or failed no step
\* changes it, and every request then taken for that task is rejected with
\* a validation error (a 400 response and no other call).
C1_TerminalStable ==
    [][\A t \in TaskIds :
          Terminal(tasks[t].status) =>
              /\ tasks'[t].status = tasks[t].status
              /\ \A w \in Workers :
                    Taken(w) /\ req'[w].inp.task_id = t
                        => Rejected(req'[w].script)]_vars

\* a request for the completed task t1 was rejected because the task ended
C1_Witness ==
    /\ req["w1"].pc = "done"
    /\ req["w1"].inp.task_id = "t1"
    /\ req["w1"].validation.error = "task_ended"
    /\ Rejected(req["w1"].script)
    /\ tasks["t1"].status = "completed"

\* the documented order of the statuses
Rank(status) ==
    CASE status = "created" -> 0
      [] status = "file_uploading" -> 1
      [] status = "ai_processing" -> 2
      [] status \in {"generating_catalog", "generating_cards"} -> 3
      [] status = "catalog_ready" -> 4
      [] status = "completed" -> 5
      [] OTHER -> 6

\* C2: a status write never moves a task to a status that precedes its
\* current one, except that the second pass (the file-section request)
\* resumes from catalog_ready at file_uploading, ai_processing or
\* generating_cards; failed is the only other target.
C2_StatusOnlyForward ==
    [][\A t \in TaskIds :
          tasks'[t].status # tasks[t].status =>
              \/ tasks'[t].status = "failed"
              \/ Rank(tasks'[t].status) >= Rank(tasks[t].status)
              \/ /\ tasks[t].status = "catalog_ready"
                 /\ tasks'[t].status \in
                        {"file_uploading", "ai_processing", "generating_cards"}
                 /\ \E w \in Workers :
                       /\ Running(w)
                       /\ req[w].inp.task_id = t
                       /\ req[w].endpoint = "flashcards/generate/file/section"
      ]_vars

\* the request is a first pass whose upload and AI call both succeed
FirstPassSucceeds(w) ==
    /\ req[w].pc # "idle"
    /\ req[w].endpoint = "catalog/file"
    /\ req[w].ip >= 1
    /\ req[w].script[1].op = "call"
    /\ req[w].env.upload_ok
    /\ req[w].env.ais[1].kind # "raise"

FirstPassStatuses ==
    <<"file_uploading", "ai_processing", "generating_catalog", "catalog_ready">>

\* C3: in a first pass whose upload and AI call both succeed the statuses
\* written are exactly file_uploading, ai_processing, generating_catalog,
\* catalog_ready in that order, file_uploading before the upload call and
\* catalog_ready only after the AI call returned.
C3_FirstPassOrder ==
    \A w \in Workers :
        FirstPassSucceeds(w) =>
            LET calls == Executed(w) IN
            /\ IsPrefix(StatusWrites(calls), FirstPassStatuses)
            /\ req[w].pc = "done" =>
                  /\ StatusWrites(calls) = FirstPassStatuses
                  /\ tasks[req[w].inp.task_id].status = "catalog_ready"
            /\ \A i \in 1..Len(calls) :
                  /\ calls[i].op = "upload_files" =>
                        \E j \in 1..(i - 1) : calls[j] = W("file_uploading")
                  /\ calls[i] = W("catalog_ready") =>
                        \E j \in 1..(i - 1) : calls[j].op = "external"

\* a first pass ended with the task parked at catalog_ready
C3_Witness ==
    /\ FirstPassSucceeds("w1")
    /\ req["w1"].pc = "done"
    /\ StatusWrites(Executed("w1")) = FirstPassStatuses
    /\ tasks["t1"].status = "catalog_ready"

\* the request is a second pass: a file-section request for a task parked
\* at catalog_ready that asks for at least one section of the outline and
\* has reached the business function, with the store and the upload working
SecondPass(w) ==
    /\ req[w].pc # "idle"
    /\ req[w].endpoint = "flashcards/generate/file/section"
    /\ req[w].validation.valid
    /\ req[w].validation.task.status = "catalog_ready"
    /\ \E i \in 1..req[w].ip : req[w].script[i].op = "call"
    /\ Len(ResolvedSections(req[w].inp.ids)) >= 1
    /\ req[w].env.lookup_ok
    /\ req[w].env.upload_ok

\* the answers the AI collaborator has for the sections of the request
SectionAnswers(w) == req[w].env.ais

AnyList(ais) == \E i \in 1..Len(ais) : ais[i].kind = "list"

\* the response of a request that is done
Response(w) == req[w].script[Len(req[w].script)]

Succeeded(w) ==
    /\ Response(w).ok
    /\ tasks[req[w].inp.task_id].status = "completed"

Failed(w) ==
    /\ ~Response(w).ok
    /\ tasks[req[w].inp.task_id].status = "failed"

\* C4: a second pass in which at least one section's AI call returns a card
\* list writes only file_uploading, ai_processing, generating_cards, in that
\* relative order, and then ends with status completed and a success result.
C4_SecondPassCompletes ==
    \A w \in Workers :
        SecondPass(w) /\ AnyList(SectionAnswers(w)) =>
            LET ws == StatusWrites(Executed(w)) IN
            /\ \A i \in 1..Len(ws) :
                  ws[i] \in {"file_uploading", "ai_processing",
                             "generating_cards", "completed"}
            /\ \A i, j \in 1..Len(ws) : i < j => Rank(ws[i]) < Rank(ws[j])
            /\ req[w].pc = "done" =>
                  /\ ws[Len(ws)] = "completed"
                  /\ Succeeded(w)

\* C5: the validation a request is taken with is valid exactly when the task
\* exists (a failed lookup counts as missing), has the expected type and the
\* expected workflow when one is given, and is not completed or failed; a
\* valid one carries the task row, an invalid one an error.
C5_ValidateTask ==
    [][\A w \in Workers :
          Taken(w) =>
              LET r == req'[w]
                  id == r.inp.task_id
                  ty == ExpectedTaskType(r.endpoint)
                  wf == ExpectedWorkflowType(r.endpoint)
                  exists == r.inp.lookup_ok /\ id \in DOMAIN tasks
              IN  /\ r.validation.valid <=>
                        /\ exists
                        /\ ty # None => tasks[id].task_type = ty
                        /\ wf # None => tasks[id].workflow_type = wf
                        /\ ~Terminal(tasks[id].status)
                  /\ r.validation.valid =>
                        r.validation.task = tasks[id] /\ r.validation.error = None
                  /\ ~r.validation.valid => r.validation.error # None]_vars

\* a file-section request was just taken with the valid task t1, parked at
\* catalog_ready by an earlier request
C5_Witness ==
    /\ req["w1"].pc = "running"
    /\ req["w1"].ip = 0
    /\ req["w1"].endpoint = "flashcards/generate/file/section"
    /\ req["w1"].validation.valid
    /\ req["w1"].validation.task = tasks["t1"]
    /\ tasks["t1"].status = "catalog_ready"

\* C6: a request whose task fails a check of validate_task is answered 400
\* and writes nothing: tasks, catalogs, results and flashcards stay as they
\* are in every step of the request.
C6_ValidationNonMutation ==
    [][\A w \in Workers :
          Running(w) /\ ~req[w].validation.valid =>
              /\ UNCHANGED <<tasks, catalogs, results, flashcards>>
              /\ NextCall(w).op = "return"
              /\ NextCall(w).n = 400]_vars

\* a catalog request for a direct_generate file task was answered 400
C6_Witness ==
    /\ req["w1"].pc = "done"
    /\ req["w1"].endpoint = "catalog/file"
    /\ req["w1"].validation.error = "workflow_type_mismatch"
    /\ Response("w1").n = 400
    /\ tasks["t1"].status = "created"

\* C7: a request the view rejects with a 400 (a bad or missing field, a task
\* not at catalog_ready, an empty address list, a file name that differs
\* from the recorded one, an oversize file) leaves the task rows unchanged.
C7_RejectionNonMutation ==
    [][\A w \in Workers :
          Running(w) /\ Response(w).op = "return" /\ Response(w).n = 400
              => tasks' = tasks]_vars

\* C8: a multi-section run with at least one resolved section ends failed
\* exactly when none of the AI answers is a list; when one is a list, an
\* empty one included, it ends completed with a success result.
C8_FullFailureThreshold ==
    \A w \in Workers :
        SecondPass(w) /\ req[w].pc = "done" =>
            /\ Failed(w) <=> ~AnyList(SectionAnswers(w))
            /\ AnyList(SectionAnswers(w)) => Succeeded(w)

RECURSIVE ConcatLists(_)
ConcatLists(ais) ==
    IF ais = <<>> THEN <<>>
    ELSE (IF Head(ais).kind = "list" THEN Head(ais).cards ELSE <<>>)
         \o ConcatLists(Tail(ais))

\* C9: when some AI answers are unparsable text and at least one is a card
\* list, the result is a success whose cards are the concatenation, in
\* section order, of the lists of the sections that parsed.
C9_PartialFailureAggregation ==
    \A w \in Workers :
        /\ SecondPass(w) /\ req[w].pc = "done"
        /\ AnyList(SectionAnswers(w))
        /\ \E i \in 1..Len(SectionAnswers(w)) :
              SectionAnswers(w)[i].kind = "text"
        => /\ Response(w).ok
           /\ Response(w).cards = ConcatLists(SectionAnswers(w))

\* C10: every resolved section gets its own AI call; a call that raises is
\* absorbed for its section, and the run ends failed only if every section
\* fails.
C10_SectionIndependence ==
    \A w \in Workers :
        SecondPass(w) /\ req[w].pc = "done" =>
            /\ Cardinality({i \in 1..req[w].ip :
                               req[w].script[i].op = "external"})
                  = Len(ResolvedSections(req[w].inp.ids))
            /\ (/\ \E i \in 1..Len(SectionAnswers(w)) :
                      SectionAnswers(w)[i].kind = "raise"
                /\ AnyList(SectionAnswers(w)))
               => Succeeded(w)

\* the request has called its business function
Called(w) == \E i \in 1..req[w].ip : req[w].script[i].op = "call"

\* the request has asked the AI collaborator for a completion
AskedAi(w) ==
    \E i \in 1..req[w].ip :
        /\ req[w].script[i].op = "external"
        /\ req[w].script[i].st \in {"chat", "chat_with_multimedia"}

\* C11: when the AI call of a single-step operation (text generation, file
\* generation, catalog extraction) raises or its completion does not decode
\* to a list, the operation reports a failure and the task ends at failed,
\* never at completed or catalog_ready.
C11_SingleStepFailure ==
    \A w \in Workers :
        /\ req[w].pc = "done"
        /\ req[w].endpoint \in {"flashcards/generate/text",
                                "flashcards/generate/file", "catalog/file"}
        /\ AskedAi(w)
        /\ req[w].env.ais[1].kind # "list"
        => Failed(w)

\* C12: a request that passed validation and called its business function
\* returns with the task at completed or failed (catalog extraction: at
\* catalog_ready or failed), never untouched or at an intermediate status.
C12_TwoTerminalOutcomes ==
    \A w \in Workers :
        req[w].pc = "done" /\ Called(w) =>
            LET status == tasks[req[w].inp.task_id].status IN
            IF req[w].endpoint = "catalog/file"
            THEN status \in {"catalog_ready", "failed"}
            ELSE status \in {"completed", "failed"}

\* C13: after a request that uploaded the task's file successfully, the media
\* reference is stored in the task's input_data (file.info).
C13_MediaMemoized ==
    \A w \in Workers :
        /\ req[w].pc = "done"
        /\ req[w].env.upload_ok /\ req[w].env.lookup_ok
        /\ \E i \in 1..req[w].ip : req[w].script[i].op = "upload_files"
        => tasks[req[w].inp.task_id].info # None

\* what the business function can be given as the path of the file
SectionPaths == {"", "missing", "present"}

NoUpload(calls) ==
    \A i \in 1..Len(calls) :
        calls[i].op # "upload_files" /\ calls[i] # W("file_uploading")

\* C14: when the task holds a media reference, the section operations make
\* no upload call, write no file_uploading status, do the same whatever the
\* file path is, and give the cached reference to every AI call they make.
C14_CacheHitSkipsUpload ==
    \A w \in Workers :
        /\ req[w].pc # "idle"
        /\ req[w].endpoint = "flashcards/generate/file/section"
        /\ Called(w)
        /\ req[w].env.lookup_ok
        /\ tasks[req[w].inp.task_id].info # None
        => LET id == req[w].inp.task_id
               ids == req[w].inp.ids
               env == req[w].env
           IN  /\ NoUpload(req[w].script)
               /\ \A path \in SectionPaths :
                     /\ generate_flashcards_from_file_section_by_ids(
                            tasks, id, path, ids, env)
                        = generate_flashcards_from_file_section_by_ids(
                            tasks, id, "present", ids, env)
                     /\ Len(env.ais) >= 1 =>
                           LET calls == generate_flashcards_from_file_section(
                                            tasks, id, path, "s", env)
                           IN  /\ NoUpload(calls)
                               /\ \E i \in 1..Len(calls) :
                                     calls[i].op = "external"
                               /\ \A i \in 1..Len(calls) :
                                     calls[i].op = "external" =>
                                        calls[i].cards = <<tasks[id].info>>

\* a file-section request for a task holding a media reference has returned
\* without an upload
C14_Witness ==
    /\ req["w1"].pc = "done"
    /\ req["w1"].endpoint = "flashcards/generate/file/section"
    /\ Called("w1")
    /\ req["w1"].env.lookup_ok
    /\ req["w1"].validation.task.info = UploadedMedia
    /\ tasks["t1"].info = UploadedMedia
    /\ Len(req["w1"].env.ais) >= 1
    /\ NoUpload(req["w1"].script)

\* C20: the selected list of a Catalog row holds only addresses of the
\* row's outline.
C20_SelectedSubsetOfCatalog ==
    \A t \in TaskIds :
        catalogs[t].exists =>
            \A i \in 1..Len(catalogs[t].selected) :
                catalogs[t].selected[i] \in CatalogAddresses

\* the addresses of an outline, in document order
Addresses(catalog) ==
    LET walk == search_catalog(catalog, <<>>)
    IN  [n \in 1..Len(walk) |-> Get(walk[n].item, "id")]

ListOf(item, key) == IF key \in DOMAIN item THEN item[key] ELSE <<>>

\* chapter k has the address "k", its j-th section "k.j" and the i-th
\* subsection of that section "k.j.i"
Positional(catalog) ==
    \A k \in 1..Len(catalog) :
        LET chapter == catalog[k] IN
        /\ Get(chapter, "id") = ToString(k)
        /\ \A j \in 1..Len(ListOf(chapter, "sections")) :
              LET section == chapter.sections[j] IN
              /\ Get(section, "id") = ToString(k) \o "." \o ToString(j)
              /\ \A i \in 1..Len(ListOf(section, "subsections")) :
                    Get(section.subsections[i], "id")
                        = ToString(k) \o "." \o ToString(j) \o "."
                          \o ToString(i)

\* the numbers of sections and subsections of an outline
ShapeOf(catalog) ==
    [k \in 1..Len(catalog) |->
        [j \in 1..Len(ListOf(catalog[k], "sections")) |->
            Len(ListOf(catalog[k].sections[j], "subsections"))]]

Addressed == calc.stage \in {"addressed", "readdressed", "resolved"}

\* C15: the addressing gives every node the address of its position ("k",
\* "k.j", "k.j.i", counted from 1 in document order); outlines of the same
\* shape get the same addresses whatever their labels, and addressing the
\* output again changes nothing.
C15_PositionalAddressing ==
    Addressed =>
        /\ Positional(calc.catalog_with_ids)
        /\ calc.stage = "readdressed" =>
              calc.catalog_with_ids = calc.catalog_data
        /\ calc.stage = "addressed" =>
              \A f \in Forests :
                  ShapeOf(f) = ShapeOf(calc.catalog_data) =>
                      Addresses(generate_catalog_ids(f))
                          = Addresses(calc.catalog_with_ids)

\* an outline of two chapters with sections and subsections was addressed
\* and addressed again
C15_Witness ==
    /\ calc.stage = "readdressed"
    /\ Len(calc.catalog_with_ids) = 2
    /\ Len(ListOf(calc.catalog_with_ids[2], "sections")) = 2
    /\ Len(ListOf(calc.catalog_with_ids[2].sections[2], "subsections")) = 2
    /\ calc.catalog_with_ids[2].sections[2].subsections[2].id = "2.2.2"
    /\ calc.catalog_with_ids[1].id = "1"

\* C16: no two nodes of an addressed outline, at any depth, carry the same
\* address.
C16_AddressesUnique ==
    Addressed =>
        LET ids == Addresses(calc.catalog_with_ids) IN
        \A m, n \in 1..Len(ids) : m # n => ids[m] # ids[n]

\* an outline of at least seven nodes, all labelled alike, was addressed
C16_Witness ==
    /\ calc.stage = "addressed"
    /\ Len(Addresses(calc.catalog_with_ids)) >= 7
    /\ calc.catalog_with_ids[1].chapter = "T"
    /\ Len(ListOf(calc.catalog_with_ids[1], "sections")) = 2

StripId(item) == [f \in DOMAIN item \ {"id"} |-> item[f]]

\* the outline without the id fields
StripIds(catalog) ==
    [k \in 1..Len(catalog) |->
        LET chapter == StripId(catalog[k]) IN
        IF "sections" \notin DOMAIN chapter THEN chapter
        ELSE [chapter EXCEPT !.sections =
                [j \in 1..Len(chapter.sections) |->
                    LET section == StripId(chapter.sections[j]) IN
                    IF "subsections" \notin DOMAIN section THEN section
                    ELSE [section EXCEPT !.subsections =
                            [i \in 1..Len(section.subsections) |->
                                StripId(section.subsections[i])]]]]]

\* C17: the output of the addressing is the input with an id field on every
\* node: same nodes in the same order, every other field as it was; the
\* input itself is as before.
C17_OnlyAddsId ==
    [][/\ (calc.stage = "input" /\ calc'.stage = "addressed") =>
              /\ calc'.catalog_data = calc.catalog_data
              /\ StripIds(calc'.catalog_with_ids) = calc.catalog_data
              /\ \A k \in 1..Len(calc.catalog_data) :
                    DOMAIN calc'.catalog_with_ids[k]
                        = DOMAIN calc.catalog_data[k] \cup {"id"}
       /\ (calc.stage = "addressed" /\ calc'.stage = "readdressed") =>
              /\ calc'.catalog_data = calc.catalog_with_ids
              /\ StripIds(calc'.catalog_with_ids)
                     = StripIds(calc.catalog_with_ids)]_vars

\* an outline with a chapter that has no sections key and a chapter with
\* sections was addressed
C17_Witness ==
    /\ calc.stage = "addressed"
    /\ Len(calc.catalog_with_ids) = 2
    /\ "sections" \notin DOMAIN calc.catalog_with_ids[1]
    /\ calc.catalog_with_ids[1].description = "d"
    /\ calc.catalog_with_ids[1].chapter = "C1"
    /\ Len(ListOf(calc.catalog_with_ids[2], "sections")) = 2
    /\ StripIds(calc.catalog_with_ids) = calc.catalog_data

\* the address a belongs to a node of the outline
Exists(catalog, a) == InList(a, Addresses(catalog))

\* a node below the node of address a, at any depth, is chosen
HasChosenDescendant(catalog, chapter_ids, a) ==
    LET walk == search_catalog(catalog, <<>>) IN
    \E n \in 1..Len(walk) :
        /\ InList(Get(walk[n].item, "id"), chapter_ids)
        /\ \E p \in 1..Len(walk[n].parents) :
              Get(walk[n].parents[p], "id") = a

\* the chosen addresses of the outline none of whose descendants is chosen
LeafMost(catalog, chapter_ids) ==
    SelectSeq(chapter_ids,
              LAMBDA a : /\ Exists(catalog, a)
                         /\ ~HasChosenDescendant(catalog, chapter_ids, a))

OwnLabel(item) ==
    IF "chapter" \in DOMAIN item THEN item.chapter
    ELSE IF "section" \in DOMAIN item THEN item.section
    ELSE item.subsection

RECURSIVE JoinLabels(_)
JoinLabels(labels) ==
    IF Len(labels) = 1 THEN labels[1]
    ELSE labels[1] \o " - " \o JoinLabels(Tail(labels))

\* the label of the node of address a after the labels of the nodes above
\* it, from the root down, joined with " - "
ExpectedTitle(catalog, a) ==
    LET walk == search_catalog(catalog, <<>>)
        n == CHOOSE m \in 1..Len(walk) : Get(walk[m].item, "id") = a
    IN  JoinLabels([p \in 1..Len(walk[n].parents) |->
                       OwnLabel(walk[n].parents[p])]
                   \o <<OwnLabel(walk[n].item)>>)

TitlesOf(catalog, addresses) ==
    [i \in 1..Len(addresses) |-> ExpectedTitle(catalog, addresses[i])]

\* C18: title resolution returns the titles of the chosen nodes that have no
\* chosen descendant at any depth, and of no other node.
C18_LeafMostSelection ==
    calc.stage = "resolved" =>
        calc.titles
            = TitlesOf(calc.catalog_with_ids,
                       LeafMost(calc.catalog_with_ids, calc.chapter_ids))

\* What holds of stale addresses whatever the leaf-most rule keeps: the
\* result is that of the list without them, and it is made of the titles of
\* chosen nodes of the outline, one per kept address, every chosen node
\* without a chosen descendant among them.
StaleAddressesIgnored ==
    calc.stage = "resolved" =>
        LET catalog == calc.catalog_with_ids
            present == SelectSeq(calc.chapter_ids,
                                 LAMBDA a : Exists(catalog, a))
            leaves == LeafMost(catalog, calc.chapter_ids)
        IN  /\ calc.titles
                 = filter_leaf_sections(
                       get_section_titles_by_ids(catalog, present),
                       present, catalog)
            /\ \E kept \in SUBSET {present[i] : i \in 1..Len(present)} :
                  /\ \A i \in 1..Len(leaves) : leaves[i] \in kept
                  /\ calc.titles
                       = TitlesOf(catalog,
                                  SelectSeq(present, LAMBDA a : a \in kept))

\* C19: resolving a list that holds an address absent from the outline gives
\* exactly one title for each chosen address of the outline that the
\* leaf-most rule keeps (no chosen descendant at any depth), the title being
\* the node's label after its ancestors' labels, joined with " - " from the
\* root down.
C19_StaleAddressTolerance ==
    (/\ calc.stage = "resolved"
     /\ \E i \in 1..Len(calc.chapter_ids) :
           ~Exists(calc.catalog_with_ids, calc.chapter_ids[i])) =>
        LET catalog == calc.catalog_with_ids
            present == SelectSeq(calc.chapter_ids,
                                 LAMBDA a : Exists(catalog, a))
        IN  calc.titles = TitlesOf(catalog, LeafMost(catalog, present))

\* C21: when a catalog extraction from a file has succeeded and parked its
\* task at catalog_ready, a Catalog row of the task exists, with an empty
\* selected list.
C21_CatalogAtReady ==
    \A w \in Workers :
        (/\ FirstPassSucceeds(w)
         /\ req[w].pc = "done"
         /\ Response(w).ok
         /\ tasks[req[w].inp.task_id].status = "catalog_ready")
        => /\ catalogs[req[w].inp.task_id].exists
           /\ catalogs[req[w].inp.task_id].selected = <<>>

\* the flashcard rows that reference the r-th result row and are not deleted
CardsOf(r) ==
    {i \in 1..Len(flashcards) :
        flashcards[i].result_id = r /\ ~flashcards[i].is_deleted}

\* C22: in every state of the store, between the two inserts of a run and
\* after a failed insert of the cards included, the total_count of every
\* result row is the number of flashcard rows, not deleted, that reference it.
C22_TotalCountConsistent ==
    \A r \in 1..Len(results) :
        results[r].total_count = Cardinality(CardsOf(r))

\* C25: a result row is created only by a run that generated at least one
\* card: no result row has a total_count of 0, and a request that ended in
\* failure has inserted no result row.
C25_ResultOnlyWithCards ==
    /\ \A r \in 1..Len(results) : results[r].total_count >= 1
    /\ \A w \in Workers :
          req[w].pc = "done" /\ ~Response(w).ok =>
              \A i \in 1..req[w].ip : req[w].script[i].op # "create_result"

\* the request has tried to insert a result row or flashcard rows and the
\* insert failed
SaveFailed(w) ==
    \E i \in 1..req[w].ip :
        /\ req[w].script[i].op \in {"create_result", "create_flashcards"}
        /\ ~req[w].script[i].ok

\* C26: a failed insert of the result row or of the flashcard rows is tried
\* once and shows in the outcome: the request does not answer success with
\* the task completed while the task has no result row.
C26_PersistenceErrorsSurfaced ==
    \A w \in Workers :
        req[w].pc = "done" /\ SaveFailed(w) =>
            /\ \A op \in {"create_result", "create_flashcards"} :
                  Cardinality({i \in 1..req[w].ip :
                                  req[w].script[i].op = op}) <= 1
            /\ ~(/\ Response(w).ok
                 /\ tasks[req[w].inp.task_id].status = "completed"
                 /\ \A r \in 1..Len(results) :
                       results[r].task_id # req[w].inp.task_id)

\* for every card of section_results, in order, the section it belongs to
RECURSIVE FlatSources(_)
FlatSources(section_results) ==
    IF section_results = <<>> THEN <<>>
    ELSE [i \in 1..Len(Head(section_results).cards) |->
             Head(section_results)]
         \o FlatSources(Tail(section_results))

\* the rows saved for the result row created last, in reading order
SavedRows == get_flashcards_by_result(Len(results))

\* C23: the flashcard rows of one result carry pairwise distinct order_index
\* values; a saved run's rows, read by order_index, are the cards of the
\* run's list in the order of the list, numbered 0..n-1, and in a
\* multi-section run that list is the sections' lists one after another in
\* section order.
C23_OrderIndexUnique ==
    /\ \A i, j \in 1..Len(flashcards) :
          (i # j /\ flashcards[i].result_id = flashcards[j].result_id)
              => flashcards[i].order_index # flashcards[j].order_index
    /\ calc.stage = "saved" =>
          /\ Len(SavedRows) = Len(calc.all_cards)
          /\ \A i \in 1..Len(SavedRows) :
                /\ SavedRows[i].order_index = i - 1
                /\ SavedRows[i].card_data
                       = convert_card_to_jsonb(calc.all_cards[i])
          /\ calc.section_results # <<>> =>
                LET sources == FlatSources(calc.section_results) IN
                /\ Len(sources) = Len(SavedRows)
                /\ \A i \in 1..Len(SavedRows) :
                      /\ SavedRows[i].section_id =
                             build_section_id_map(calc.catalog_with_ids,
                                                  sources[i].section_title)
                      /\ \A j \in 1..Len(SavedRows) :
                            (i < j) => sources[i].source <= sources[j].source

\* a run over two sections with two cards each was saved
C23_Witness ==
    /\ calc.stage = "saved"
    /\ Len(calc.section_results) = 2
    /\ Len(calc.section_results[1].cards) = 2
    /\ Len(calc.section_results[2].cards) = 2
    /\ {flashcards[i].order_index : i \in 1..Len(flashcards)} = 0..3
    /\ calc.section_results[1].section_title
           # calc.section_results[2].section_title

\* the keys card_data must have for each card_type
ShapeOfType(card_type) ==
    CASE card_type = "basic" -> {"question", "answer"}
      [] card_type = "cloze" -> {"text", "cloze_items"}
      [] card_type = "multiple_choice" ->
             {"question", "options", "correct_index"}

\* C24: every saved flashcard row has the card_data shape of its card_type:
\* question and answer for basic, text and cloze_items for cloze, question,
\* options and correct_index for multiple_choice.
C24_CardTypeDeterminesShape ==
    \A i \in 1..Len(flashcards) :
        "card_type" \in DOMAIN flashcards[i] =>
            DOMAIN flashcards[i].card_data
                = ShapeOfType(flashcards[i].card_type)

\* the chosen addresses the section titles were resolved from, in the order
\* of the titles
ResolvedFrom(catalog, chapter_ids) ==
    SelectSeq(chapter_ids,
              LAMBDA a : /\ a \notin has_selected_children(catalog, chapter_ids)
                         /\ id_to_title(catalog, a) # None)

\* C30: every flashcard row saved by a multi-section run with a catalog
\* carries as section_id the address its section's title was resolved from.
C30_SectionIdIsAddress ==
    (calc.stage = "saved" /\ calc.section_results # <<>>) =>
        LET sources == FlatSources(calc.section_results)
            addresses == ResolvedFrom(calc.catalog_with_ids, calc.chapter_ids)
        IN  \A i \in 1..Len(SavedRows) :
                SavedRows[i].section_id = addresses[sources[i].source]

\* the text is a JSON value inside optional markers: blanks, the progress
\* prefix, an opening fence, blanks, the value, blanks, a closing fence,
\* blanks
RECURSIVE Wrapped(_, _)
Wrapped(text, phase) ==
    IF text = <<>> THEN phase \in {"value_seen", "closed"}
    ELSE LET t == Head(text) rest == Tail(text) IN
         CASE phase = "start" ->
                  \/ t = Blank /\ Wrapped(rest, "start")
                  \/ t = ProgressPrefix /\ Wrapped(rest, "prefixed")
                  \/ t \in {JsonFence, Fence} /\ Wrapped(rest, "opened")
                  \/ t \in JsonTokens /\ Wrapped(rest, "value_seen")
           [] phase = "prefixed" ->
                  \/ t \in {JsonFence, Fence} /\ Wrapped(rest, "opened")
                  \/ t = Blank /\ Wrapped(rest, "opened")
                  \/ t \in JsonTokens /\ Wrapped(rest, "value_seen")
           [] phase = "opened" ->
                  \/ t = Blank /\ Wrapped(rest, "opened")
                  \/ t \in JsonTokens /\ Wrapped(rest, "value_seen")
           [] phase = "value_seen" ->
                  \/ t = Blank /\ Wrapped(rest, "value_seen")
                  \/ t = Fence /\ Wrapped(rest, "closed")
           [] phase = "closed" -> t = Blank /\ Wrapped(rest, "closed")

\* the JSON value of a wrapped text
ValueOf(text) ==
    LET values == SelectSeq(text, LAMBDA t : t \in JsonTokens)
    IN  values[1]

\* What holds of the parser alone: a text that is a JSON value inside
\* blanks, the progress prefix and fence markers gives that value; every
\* other text is returned exactly as received.
ParserNeverFails ==
    calc.stage \in {"parsed", "checked"} =>
        /\ Wrapped(calc.ai_result, "start") =>
              /\ calc.result.decoded
              /\ calc.result.result = ValueOf(calc.ai_result)
        /\ ~Wrapped(calc.ai_result, "start") =>
              /\ ~calc.result.decoded
              /\ calc.result.result = calc.ai_result

\* the completion of the request decoded, or did not decode, to a value that
\* is not a list
NonListReturn(w) ==
    /\ AskedAi(w)
    /\ req[w].env.ais[1].kind \in {"text", "object"}

\* C27: parse_result returns the decoded structure or the text as received
\* and never raises, and every caller treats a return that is not a list as
\* a failed generation: a request whose completion gives no list answers
\* with a failure.
C27_ParserNeverFails ==
    \A w \in Workers :
        (req[w].pc = "done" /\ NonListReturn(w)) => ~Response(w).ok

FileSectionEndpoint == "flashcards/generate/file/section"

\* the request was taken with a valid task whose stored status was
\* catalog_ready
AtPausePoint(r) ==
    r.validation.valid /\ r.validation.task.status = "catalog_ready"

\* C28: a file-section request goes on to the selection update and the card
\* generation only when the task it validated is stored at catalog_ready;
\* taken at any other status it is answered with a 400 and makes no other
\* call, so every write of such a request, generating_cards included, is
\* made for a task that was read at catalog_ready.
C28_SecondPassFromPausePoint ==
    [][\A w \in Workers :
          /\ (Taken(w) /\ req'[w].endpoint = FileSectionEndpoint) =>
                /\ req'[w].validation.valid =>
                      req'[w].validation.task = tasks[req'[w].inp.task_id]
                /\ ~AtPausePoint(req'[w]) => Rejected(req'[w].script)
          /\ (/\ Running(w)
              /\ req[w].endpoint = FileSectionEndpoint
              /\ req'[w].ip = req[w].ip + 1
              /\ NextCall(w).op # "return") => AtPausePoint(req[w])]_vars

\* a file-section request taken while another request had the task at
\* generating_cards was answered 400 with nothing else done, and the task
\* is as the other request left it
C28_Witness ==
    \E w \in Workers :
        /\ req[w].pc = "done"
        /\ req[w].endpoint = FileSectionEndpoint
        /\ req[w].validation.valid
        /\ req[w].validation.task.status = "generating_cards"
        /\ Rejected(req[w].script)
        /\ req[w].inp.ids # <<>>

\* C29: a status write sets the status of the row of its task id to the
\* value given, whatever the stored status is, a terminal one included, and
\* changes nothing else in any row; a request validated earlier goes on
\* writing after another request has ended the task.
C29_UnguardedStatusWrites ==
    [][\A w \in Workers :
          (/\ Running(w)
           /\ NextCall(w).op = "update_status"
           /\ req'[w].ip = req[w].ip + 1) =>
              tasks' = [t \in DOMAIN tasks |->
                           IF t = req[w].inp.task_id
                           THEN [tasks[t] EXCEPT !.status = NextCall(w).st]
                           ELSE tasks[t]]]_vars

\* two requests validated the task at created; one has run to completion
\* and written completed, the other has since written ai_processing over it
C29_Witness ==
    /\ req["w1"].pc = "done"
    /\ req["w1"].validation.valid /\ req["w2"].validation.valid
    /\ req["w1"].validation.task.status = "created"
    /\ req["w2"].validation.task.status = "created"
    /\ StatusWrites(Executed("w1")) # <<>>
    /\ StatusWrites(Executed("w1"))[Len(StatusWrites(Executed("w1")))]
           = "completed"
    /\ Running("w2")
    /\ StatusWrites(Executed("w2")) = <<"file_uploading", "ai_processing">>
    /\ tasks["t1"].status = "ai_processing"

====
